---- MODULE Spec2Model ----
(***************************************************************************)
(* vox2docs: the daemon loop (daemon.py), the new-file monitor            *)
(* (monitor.py) and the processing pipeline (pipeline.py).                 *)
(*                                                                         *)
(* Two threads share the deque `pending`: the watchdog observer thread,    *)
(* which runs _MonitorEventHandler.on_created / on_modified, and the main  *)
(* thread, which runs Daemon.run.  CPython's deque.append and              *)
(* deque.popleft are atomic, so every handler is one action.  Signal       *)
(* handlers run in the main thread between two bytecodes, so               *)
(* _handle_termination may fire at any position of the main thread.        *)
(*                                                                         *)
(* The variables discovered, picked, starting, finished, failed, received  *)
(* and unprocessed_log are the log lines the program writes, in order;     *)
(* calls records the processor.process invocations of the current          *)
(* Pipeline.process call.                                                  *)
(***************************************************************************)
EXTENDS Integers, Sequences, FiniteSets, TLC

\* ---------------------------------------------------------------- bounds
NumNames == 3        \* file names that may appear in the input directory
MaxExisting == 2     \* entries already in the directory when the daemon starts
MaxProcessors == 3   \* longest processor list given to Pipeline(...)

Names == 1..NumNames

\* ------------------------------------------------------- configuration
\* MonitorConfig.input_directory, made absolute by Config.resolve_paths.
InputDirectory == "/base/inbox"
\* MonitorConfig.extensions (default).
Extensions == {".m4a"}
\* <Name>ProcessorConfig.output_directory of each processor, resolved against
\* base_directory (config.py holds no section for cleanup: its directory is
\* named after the processor).
OutputDirectory(name) ==
    CASE name = "rename" -> "/base/recordings"
      [] name = "transcribe" -> "/base/transcripts/raw"
      [] OTHER -> "/base/cleanup"

ProcessorNames == {"rename", "transcribe", "cleanup"}

\* Exceptions a processor's process() raises (all subclasses of Exception).
Exceptions == {"InvalidFilenameError", "OSError"}

\* What stat()/is_dir()/suffix report for a directory entry.
EntryKinds ==
    { [state |-> "present", is_dir |-> FALSE, suffix |-> ".m4a", size |-> 1],
      [state |-> "present", is_dir |-> FALSE, suffix |-> ".m4a", size |-> 0],
      [state |-> "present", is_dir |-> FALSE, suffix |-> ".txt", size |-> 1],
      [state |-> "present", is_dir |-> TRUE,  suffix |-> ".m4a", size |-> 1] }

\* The name was never created / the daemon unlinked it.
Absent == [state |-> "absent", is_dir |-> FALSE, suffix |-> "", size |-> 0]
Removed == [state |-> "removed", is_dir |-> FALSE, suffix |-> "", size |-> 0]
NoPath == [dir |-> "", name |-> 0]
NoError == [type |-> "none", processor |-> "", cause |-> ""]
\* A call that has returned nothing yet / Python's None, as values of the
\* same shape as a path so that a returned value can be compared with one.
NoValue == [dir |-> "<unset>", name |-> 0]
PyNone == [dir |-> "<None>", name |-> 0]

VARIABLES
    fs,               \* input directory: name -> entry kind, Absent or Removed
    listing,          \* what iterdir() + stat() yield at start-up, in order
    scan_on_startup,  \* NewFileMonitor.scan_on_startup (constructor argument, either value)
    pending,          \* Daemon.pending, the deque shared with the monitor
    observer,         \* NewFileMonitor._observer: "new", "running", "stopped"
    pc,               \* position of the main thread in Daemon.run
    path,             \* local `path` of Daemon.run
    processors,       \* Pipeline.processors (names, in order)
    pl_pc,            \* Pipeline.process: "idle", "running", "returned", "raised", "interrupted"
    pl_idx,           \* position of the for loop in Pipeline.process
    pl_input,         \* local `input_path` of Pipeline.process
    pl_error,         \* the exception leaving Pipeline.process
    pl_result,        \* the value Pipeline.process returned
    calls,            \* processor.process invocations of the current run
    artifacts,        \* files written to the output directories
    discovered,       \* log "Discovered new file: %s"
    picked,           \* log "Picked %s for processing"
    starting,         \* log "Starting pipeline for %s"
    finished,         \* log "Finished processing %s, removing original file"
    failed,           \* log "Pipeline execution failed for %s"
    received,         \* log "Received %s signal" (count)
    unprocessed_log,  \* log "%d files remain unprocessed"
    filename,         \* argument of RenameProcessor.parse_filename / input_path.name
    parsed,           \* what parse_filename returned or raised
    info,             \* argument `info` of RenameProcessor.find_matching_date
    reference_time,   \* argument `reference_time` / the input file's st_mtime
    matched,          \* what find_matching_date returned or raised
    rn_pc,            \* RenameProcessor.process: "idle", "caller", "returned", "raised"
    rn_files,         \* files RenameProcessor.process may touch: path -> content
    rn_result         \* what RenameProcessor.process returned or raised

monitorVars == <<fs, listing, scan_on_startup, pending, observer, discovered>>
daemonVars == <<pc, path, picked, finished, failed, received, unprocessed_log>>
pipelineVars == <<processors, pl_pc, pl_idx, pl_input, pl_error, pl_result,
                  calls, artifacts, starting>>
renameVars == <<filename, parsed, info, reference_time, matched,
                rn_pc, rn_files, rn_result>>
vars == <<monitorVars, daemonVars, pipelineVars, renameVars>>

\* ---------------------------------------------------------------- helpers
Range(s) == {s[i] : i \in 1..Len(s)}

IsPrefix(s, t) == Len(s) <= Len(t) /\ SubSeq(t, 1, Len(s)) = s

\* Path(event.src_path) / an iterdir() result: a direct child of the directory.
InputPath(n) == [dir |-> InputDirectory, name |-> n]

\* pathlib's `self.path / child`: the right operand is absolute (iterdir of an
\* absolute directory), so the join yields the right operand.
JoinPath(base, child) == child

Present(n) == fs[n].state = "present"

\* ------------------------------------------------------------ monitor.py
\* The name the next file created in the input directory gets.  Names are
\* opaque, so new files take the unused names in increasing order.
FreshNames == {n \in Names : fs[n] = Absent}
NextName == CHOOSE n \in FreshNames : \A m \in FreshNames : n <= m

\* NewFileMonitor._scan_existing_files: the loop over iterdir(), each
\* rejection leaving the method with `return`.
RECURSIVE ScanExistingFiles(_, _)
ScanExistingFiles(entries, queue) ==
    IF entries = <<>> THEN queue
    ELSE LET e == Head(entries) IN
         IF e.is_dir THEN queue
         ELSE IF e.suffix \notin Extensions THEN queue
         ELSE IF e.size = 0 THEN queue
         ELSE ScanExistingFiles(Tail(entries),
                                Append(queue, JoinPath(InputDirectory, InputPath(e.name))))

\* Mutant of OnCreatedAccepts: the size check is missing.
OnCreatedAcceptsAnySize(is_directory, suffix, size) ==
    IF is_directory THEN FALSE
    ELSE IF suffix \notin Extensions THEN FALSE
    ELSE TRUE

\* The checks of _MonitorEventHandler.on_created, in the order of the code.
OnCreatedAccepts(is_directory, suffix, size) ==
    IF is_directory THEN FALSE
    ELSE IF suffix \notin Extensions THEN FALSE
    ELSE IF size = 0 THEN FALSE
    ELSE TRUE

\* NewFileMonitor.start, called first thing by Daemon.run: the optional scan,
\* then the observer thread is started.
MonitorStart ==
    /\ pc = "start"
    /\ LET q == IF scan_on_startup THEN ScanExistingFiles(listing, pending)
                ELSE pending IN
       /\ pending' = q
       /\ discovered' = discovered \o SubSeq(q, Len(pending) + 1, Len(q))
    /\ observer' = "running"
    /\ pc' = "loop"
    /\ UNCHANGED <<fs, listing, scan_on_startup, path, picked, finished, failed,
                   received, unprocessed_log, pipelineVars>>
    /\ UNCHANGED renameVars

\* The process is alive: run has neither returned nor been left by an exception.
Alive == pc \notin {"stopped", "exited", "crashed"}

\* _MonitorEventHandler.on_created for a new entry of the directory, on the
\* observer thread.
OnCreated ==
    /\ observer = "running"
    /\ Alive
    /\ FreshNames # {}
    /\ \E k \in EntryKinds :
         /\ fs' = [fs EXCEPT ![NextName] = k]
         /\ IF OnCreatedAccepts(k.is_dir, k.suffix, k.size)
            THEN /\ pending' = Append(pending, InputPath(NextName))
                 /\ discovered' = Append(discovered, InputPath(NextName))
            ELSE UNCHANGED <<pending, discovered>>
    /\ UNCHANGED <<listing, scan_on_startup, observer, daemonVars, pipelineVars>>
    /\ UNCHANGED renameVars

\* Mutant of OnModified: a file that has become non-empty is enqueued.
OnModifiedEnqueue ==
    /\ observer = "running"
    /\ Alive
    /\ \E n \in Names :
         /\ Present(n)
         /\ ~fs[n].is_dir
         /\ fs[n].size = 0
         /\ fs' = [fs EXCEPT ![n].size = 1]
         /\ IF fs[n].suffix \in Extensions
            THEN /\ pending' = Append(pending, InputPath(n))
                 /\ discovered' = Append(discovered, InputPath(n))
            ELSE UNCHANGED <<pending, discovered>>
    /\ UNCHANGED <<listing, scan_on_startup, observer, daemonVars, pipelineVars>>
    /\ UNCHANGED renameVars

\* _MonitorEventHandler.on_modified: an empty file of the directory is
\* written to; the handler only logs.
OnModified ==
    /\ observer = "running"
    /\ Alive
    /\ \E n \in Names :
         /\ Present(n)
         /\ ~fs[n].is_dir
         /\ fs[n].size = 0
         /\ fs' = [fs EXCEPT ![n].size = 1]
    /\ UNCHANGED <<listing, scan_on_startup, pending, observer, discovered,
                   daemonVars, pipelineVars>>
    /\ UNCHANGED renameVars

\* ----------------------------------------------------------- pipeline.py
\* The processor sections a Config holds: rename and transcribe, each with a
\* default_factory, so both are always configured.
ConfigSections == {"rename", "transcribe"}

\* Pipeline.from_config: the processors built from the configuration.
FromConfig == <<"rename">>

\* Mutant of FromProcessor: the processor's error is re-raised as it is.
FromProcessorReraise(processor_name, e) ==
    [type |-> e, processor |-> "", cause |-> ""]

\* PipelineExecutionError.from_processor(processor.name), raised `from e`.
FromProcessor(processor_name, e) ==
    [type |-> "PipelineExecutionError", processor |-> processor_name, cause |-> e]

\* The path a processor returns: a file of the same recording in the
\* processor's output directory.
ProcessorOutput(name, input_path) ==
    [dir |-> OutputDirectory(name), name |-> input_path.name]

\* Pipeline.process(input_path) is entered: the log line, then the for loop.
PipelineBegin(input_path) ==
    /\ pl_pc' = "running"
    /\ pl_idx' = 1
    /\ pl_input' = input_path
    /\ pl_error' = NoError
    /\ pl_result' = NoValue
    /\ calls' = <<>>
    /\ starting' = Append(starting, input_path)
    /\ UNCHANGED <<processors, artifacts>>

\* Mutant of ProcessorReturns: the returned path is dropped and the next
\* processor is given the path Pipeline.process was called with.
ProcessorReturnsSameInput ==
    /\ pl_pc = "running"
    /\ pl_idx <= Len(processors)
    /\ LET out == ProcessorOutput(processors[pl_idx], pl_input) IN
       /\ calls' = Append(calls, [processor |-> pl_idx, input |-> pl_input,
                                  outcome |-> "returned", exc |-> ""])
       /\ artifacts' = artifacts \cup {out}
    /\ pl_idx' = pl_idx + 1
    /\ UNCHANGED <<processors, pl_pc, pl_input, pl_error, pl_result, starting>>
    /\ UNCHANGED <<monitorVars, daemonVars>>
    /\ UNCHANGED renameVars

\* One iteration of the for loop whose processor.process returns.
ProcessorReturns ==
    /\ pl_pc = "running"
    /\ pl_idx <= Len(processors)
    /\ LET out == ProcessorOutput(processors[pl_idx], pl_input) IN
       /\ calls' = Append(calls, [processor |-> pl_idx, input |-> pl_input,
                                  outcome |-> "returned", exc |-> ""])
       /\ artifacts' = artifacts \cup {out}
       /\ pl_input' = out
    /\ pl_idx' = pl_idx + 1
    /\ UNCHANGED <<processors, pl_pc, pl_error, pl_result, starting>>
    /\ UNCHANGED <<monitorVars, daemonVars>>
    /\ UNCHANGED renameVars

\* Mutant of ProcessorRaises: the error is swallowed and the loop goes on.
ProcessorRaisesContinue ==
    /\ pl_pc = "running"
    /\ pl_idx <= Len(processors)
    /\ \E e \in Exceptions :
         calls' = Append(calls, [processor |-> pl_idx, input |-> pl_input,
                                 outcome |-> "raised", exc |-> e])
    /\ pl_idx' = pl_idx + 1
    /\ UNCHANGED <<processors, pl_pc, pl_input, pl_error, pl_result, artifacts, starting>>
    /\ UNCHANGED <<monitorVars, daemonVars>>
    /\ UNCHANGED renameVars

\* Mutant of ProcessorRaises: the except branch removes what the earlier
\* processors of the run have written before it raises.
ProcessorRaisesCleanup ==
    /\ pl_pc = "running"
    /\ pl_idx <= Len(processors)
    /\ \E e \in Exceptions :
         /\ calls' = Append(calls, [processor |-> pl_idx, input |-> pl_input,
                                    outcome |-> "raised", exc |-> e])
         /\ pl_error' = [type |-> "PipelineExecutionError",
                         processor |-> processors[pl_idx], cause |-> e]
    /\ artifacts' = artifacts \ ({calls[i].input : i \in 1..Len(calls)}
                                    \cup {pl_input})
    /\ pl_pc' = "raised"
    /\ UNCHANGED <<processors, pl_idx, pl_input, pl_result, starting>>
    /\ UNCHANGED <<monitorVars, daemonVars>>
    /\ UNCHANGED renameVars

\* One iteration of the for loop whose processor.process raises an
\* Exception: `except Exception as e: raise PipelineExecutionError... from e`.
ProcessorRaises ==
    /\ pl_pc = "running"
    /\ pl_idx <= Len(processors)
    /\ \E e \in Exceptions :
         /\ calls' = Append(calls, [processor |-> pl_idx, input |-> pl_input,
                                    outcome |-> "raised", exc |-> e])
         /\ pl_error' = FromProcessor(processors[pl_idx], e)
    /\ pl_pc' = "raised"
    /\ UNCHANGED <<processors, pl_idx, pl_input, pl_result, artifacts, starting>>
    /\ UNCHANGED <<monitorVars, daemonVars>>
    /\ UNCHANGED renameVars

\* Mutant of PipelineReturn: `return input_path` ends the method.
PipelineReturnLast ==
    /\ pl_pc = "running"
    /\ pl_idx > Len(processors)
    /\ pl_pc' = "returned"
    /\ pl_result' = pl_input
    /\ UNCHANGED <<processors, pl_idx, pl_input, pl_error, calls, artifacts, starting>>
    /\ UNCHANGED <<monitorVars, daemonVars>>
    /\ UNCHANGED renameVars

\* The for loop is exhausted and Pipeline.process falls off its end.
PipelineReturn ==
    /\ pl_pc = "running"
    /\ pl_idx > Len(processors)
    /\ pl_pc' = "returned"
    /\ pl_result' = PyNone
    /\ UNCHANGED <<processors, pl_idx, pl_input, pl_error, calls, artifacts, starting>>
    /\ UNCHANGED <<monitorVars, daemonVars>>
    /\ UNCHANGED renameVars

\* ------------------------------------------------------------- daemon.py
\* Mutant of PopLeft: deque.pop(), which takes the newest item.
PopRight(q) == <<q[Len(q)], SubSeq(q, 1, Len(q) - 1)>>

\* Mutant of PopLeft: the item is read and left in the deque.
PeekLeft(q) == <<Head(q), q>>

\* deque.popleft(): the item taken and the deque left.
PopLeft(q) == <<Head(q), Tail(q)>>

\* `if self.pending:` finds the deque non-empty.  The observer thread may
\* append between this check and the popleft that follows it.
CheckPending ==
    /\ pc = "loop"
    /\ pending # <<>>
    /\ pc' = "nonempty"
    /\ UNCHANGED <<monitorVars, path, picked, finished, failed, received,
                   unprocessed_log, pipelineVars>>
    /\ UNCHANGED renameVars

\* self.pending.popleft() and the "Picked" log line.
Dequeue ==
    /\ pc = "nonempty"
    /\ LET r == PopLeft(pending) IN
       /\ path' = r[1]
       /\ pending' = r[2]
       /\ picked' = Append(picked, r[1])
    /\ pc' = "picked"
    /\ UNCHANGED <<fs, listing, scan_on_startup, observer, discovered, finished,
                   failed, received, unprocessed_log, pipelineVars>>
    /\ UNCHANGED renameVars

\* `if self.pending:` not taken: straight to time.sleep(1).
Idle ==
    /\ pc = "loop"
    /\ pending = <<>>
    /\ pc' = "sleep"
    /\ UNCHANGED <<monitorVars, path, picked, finished, failed, received,
                   unprocessed_log, pipelineVars>>
    /\ UNCHANGED renameVars

\* Mutant of Process: the pipeline run is started in the background and the
\* loop goes on without waiting for it.
ProcessAsync ==
    /\ pc = "picked"
    /\ PipelineBegin(path)
    /\ pc' = "sleep"
    /\ UNCHANGED <<monitorVars, path, picked, finished, failed, received,
                   unprocessed_log>>
    /\ UNCHANGED renameVars

\* self.pipeline.process(path) is called.
Process ==
    /\ pc = "picked"
    /\ PipelineBegin(path)
    /\ pc' = "in_pipeline"
    /\ UNCHANGED <<monitorVars, path, picked, finished, failed, received,
                   unprocessed_log>>
    /\ UNCHANGED renameVars

\* Pipeline.process returned: the "Finished processing" log line.
LogFinished ==
    /\ pc = "in_pipeline"
    /\ pl_pc = "returned"
    /\ finished' = finished \cup {path}
    /\ pc' = "unlink"
    /\ UNCHANGED <<monitorVars, path, picked, failed, received, unprocessed_log,
                   pipelineVars>>
    /\ UNCHANGED renameVars

\* path.unlink() succeeds; on to time.sleep(1).
Unlink ==
    /\ pc = "unlink"
    /\ Present(path.name)
    /\ fs' = [fs EXCEPT ![path.name] = Removed]
    /\ pc' = "sleep"
    /\ pl_pc' = "idle"
    /\ UNCHANGED <<listing, scan_on_startup, pending, observer, discovered, path,
                   picked, finished, failed, received, unprocessed_log, processors,
                   pl_idx, pl_input, pl_error, pl_result, calls, artifacts, starting>>
    /\ UNCHANGED renameVars

\* path.unlink() raises OSError, which no except clause of run catches: the
\* error leaves run.
UnlinkFails ==
    /\ pc = "unlink"
    /\ pc' = "crashed"
    /\ UNCHANGED <<monitorVars, path, picked, finished, failed, received,
                   unprocessed_log, pipelineVars>>
    /\ UNCHANGED renameVars

\* Mutant of HandleFailure: the except branch removes the original too.
HandleFailureUnlink ==
    /\ pc = "in_pipeline"
    /\ pl_pc = "raised"
    /\ failed' = failed \cup {path}
    /\ fs' = [fs EXCEPT ![path.name] = Removed]
    /\ pc' = "sleep"
    /\ pl_pc' = "idle"
    /\ pl_error' = NoError
    /\ UNCHANGED <<listing, scan_on_startup, pending, observer, discovered, path,
                   picked, finished, received, unprocessed_log, processors, pl_idx,
                   pl_input, pl_result, calls, artifacts, starting>>
    /\ UNCHANGED renameVars

\* Mutant of HandleFailure: the except branch puts the path back on the queue.
HandleFailureRequeue ==
    /\ pc = "in_pipeline"
    /\ pl_pc = "raised"
    /\ failed' = failed \cup {path}
    /\ pending' = Append(pending, path)
    /\ pc' = "sleep"
    /\ pl_pc' = "idle"
    /\ pl_error' = NoError
    /\ UNCHANGED <<fs, listing, scan_on_startup, observer, discovered, path,
                   picked, finished, received, unprocessed_log, processors, pl_idx,
                   pl_input, pl_result, calls, artifacts, starting>>
    /\ UNCHANGED renameVars

\* `except PipelineExecutionError:` logs the failure; on to time.sleep(1).
HandleFailure ==
    /\ pc = "in_pipeline"
    /\ pl_pc = "raised"
    /\ failed' = failed \cup {path}
    /\ pc' = "sleep"
    /\ pl_pc' = "idle"
    /\ pl_error' = NoError
    /\ UNCHANGED <<monitorVars, path, picked, finished, received, unprocessed_log,
                   processors, pl_idx, pl_input, pl_result, calls, artifacts, starting>>
    /\ UNCHANGED renameVars

\* time.sleep(1) returns: next iteration of `while True`.
Wake ==
    /\ pc = "sleep"
    /\ pc' = "loop"
    /\ UNCHANGED <<monitorVars, path, picked, finished, failed, received,
                   unprocessed_log, pipelineVars>>
    /\ UNCHANGED renameVars

\* Where the SystemExit raised by _handle_termination lands: inside the try
\* block `except SystemExit` catches it; in monitor.start() and in the except
\* block itself nothing does, and it leaves run.
InTry == pc \in {"loop", "nonempty", "picked", "in_pipeline", "unlink", "sleep"}

\* Mutant of HandleTermination: the handler sets a stop flag that the loop
\* reads between two files, so a running pipeline call is left alone.
HandleTerminationDeferred ==
    /\ pc \in {"start", "shutdown"} \/ InTry
    /\ received < 2
    /\ received' = received + 1
    /\ pc' = IF pl_pc = "running" THEN pc
             ELSE IF InTry THEN "shutdown" ELSE "exited"
    /\ UNCHANGED <<monitorVars, path, picked, finished, failed, unprocessed_log,
                   pipelineVars>>
    /\ UNCHANGED renameVars

\* A SIGTERM or SIGINT is delivered: _handle_termination logs and raises
\* SystemExit(0) at the main thread's current position.  Pipeline.process
\* catches Exception only, so a running processor call is abandoned, with its
\* output file written or not.
HandleTermination ==
    /\ pc \in {"start", "shutdown"} \/ InTry
    /\ received' = received + 1
    /\ pc' = IF InTry THEN "shutdown" ELSE "exited"
    /\ IF pl_pc = "running"
       THEN /\ pl_pc' = "interrupted"
            /\ IF pl_idx <= Len(processors)
               THEN /\ calls' = Append(calls, [processor |-> pl_idx, input |-> pl_input,
                                               outcome |-> "interrupted", exc |-> "SystemExit"])
                    /\ \E partial \in BOOLEAN :
                         artifacts' = IF partial
                                      THEN artifacts \cup {ProcessorOutput(processors[pl_idx], pl_input)}
                                      ELSE artifacts
               ELSE UNCHANGED <<calls, artifacts>>
       ELSE UNCHANGED <<pl_pc, calls, artifacts>>
    /\ UNCHANGED <<monitorVars, path, picked, finished, failed, unprocessed_log,
                   processors, pl_idx, pl_input, pl_error, pl_result, starting>>
    /\ UNCHANGED renameVars

\* Mutant of MonitorStop: the shutdown path flushes the queue.
MonitorStopDrain ==
    /\ pc = "shutdown"
    /\ observer' = "stopped"
    /\ unprocessed_log' = Len(pending)
    /\ pending' = <<>>
    /\ pc' = "stopped"
    /\ UNCHANGED <<fs, listing, scan_on_startup, discovered, path, picked,
                   finished, failed, received, pipelineVars>>
    /\ UNCHANGED renameVars

\* `except SystemExit:` of run: monitor.stop(), the count of what is left in
\* the queue (0: nothing logged), and run returns.
MonitorStop ==
    /\ pc = "shutdown"
    /\ observer' = "stopped"
    /\ unprocessed_log' = Len(pending)
    /\ pc' = "stopped"
    /\ UNCHANGED <<fs, listing, scan_on_startup, pending, discovered, path, picked,
                   finished, failed, received, pipelineVars>>
    /\ UNCHANGED renameVars

\* ------------------------------------------------- RenameProcessor: dates
\* The reference years run from 2023 on, so that the leap year 2024, the
\* years before it and the years after it are all among them.
NumYears == 4
Years == 2023..(2022 + NumYears)

\* datetime.datetime as its fields.  The reference of RenameProcessor.process
\* carries one tzinfo (local_tz), which replace() keeps, so two datetimes of a
\* call compare by their fields.
DateTime(y, mo, d, h, mi, s, us) ==
    [year |-> y, month |-> mo, day |-> d, hour |-> h, minute |-> mi,
     second |-> s, microsecond |-> us]

NoDateTime == DateTime(0, 0, 0, 0, 0, 0, 0)

\* RecordingInfo(month, day, hours, minutes).
RecordingInfo(mo, d, h, mi) ==
    [month |-> mo, day |-> d, hours |-> h, minutes |-> mi]

NoInfo == RecordingInfo(0, 0, 0, 0)

Leap(y) == (y % 4 = 0 /\ y % 100 # 0) \/ y % 400 = 0

DaysInMonth(y, mo) ==
    CASE mo = 2 -> IF Leap(y) THEN 29 ELSE 28
      [] mo \in {4, 6, 9, 11} -> 30
      [] OTHER -> 31

\* The field check of datetime(): what makes replace() raise ValueError.
ValidDateTime(dt) ==
    /\ dt.year >= 1
    /\ dt.month \in 1..12
    /\ dt.day \in 1..DaysInMonth(dt.year, dt.month)
    /\ dt.hour \in 0..23
    /\ dt.minute \in 0..59
    /\ dt.second \in 0..59
    /\ dt.microsecond \in 0..999999

\* A value returned, or the exception raised in its place.
Returned(v) == [status |-> "returned", value |-> v, exc |-> "none"]
Raised(e, v) == [status |-> "raised", value |-> v, exc |-> e]

\* datetime.replace(**fields): a new datetime, or ValueError.
Replace(dt) == IF ValidDateTime(dt) THEN Returned(dt) ELSE Raised("ValueError", NoDateTime)

Fields(dt) == <<dt.year, dt.month, dt.day, dt.hour, dt.minute, dt.second,
                dt.microsecond>>

RECURSIVE SeqGreater(_, _)
SeqGreater(a, b) ==
    IF a = <<>> THEN FALSE
    ELSE IF Head(a) # Head(b) THEN Head(a) > Head(b)
    ELSE SeqGreater(Tail(a), Tail(b))

\* a > b on datetimes.
After(a, b) == SeqGreater(Fields(a), Fields(b))

\* The candidate of find_matching_date in year y.
Candidate(recording_info, y) ==
    DateTime(y, recording_info.month, recording_info.day,
             recording_info.hours, recording_info.minutes, 0, 0)

\* Mutant of FindMatchingDate: replace() without second=0, microsecond=0.
FindMatchingDateKeepSeconds(recording_info, reference) ==
    LET keep(y) == [Candidate(recording_info, y) EXCEPT
                       !.second = reference.second,
                       !.microsecond = reference.microsecond]
        first == Replace(keep(reference.year))
        candidate_time == IF first.status = "returned" THEN first
                          ELSE Replace(keep(reference.year - 1))
    IN  IF candidate_time.status = "raised" THEN candidate_time
        ELSE IF After(candidate_time.value, reference)
             THEN Replace([candidate_time.value EXCEPT !.year = @ - 1])
             ELSE candidate_time

\* Mutant of FindMatchingDate: the candidate of the reference's year is
\* always moved one year back.
FindMatchingDateAlwaysBack(recording_info, reference) ==
    LET first == Replace(Candidate(recording_info, reference.year))
        candidate_time == IF first.status = "returned" THEN first
                          ELSE Replace(Candidate(recording_info, reference.year - 1))
    IN  IF candidate_time.status = "raised" THEN candidate_time
        ELSE IF first.status = "returned"
             THEN Replace([candidate_time.value EXCEPT !.year = @ - 1])
             ELSE candidate_time

\* Mutant of FindMatchingDate: `>=` in place of `>`.
FindMatchingDateNotBefore(recording_info, reference) ==
    LET first == Replace(Candidate(recording_info, reference.year))
        candidate_time == IF first.status = "returned" THEN first
                          ELSE Replace(Candidate(recording_info, reference.year - 1))
    IN  IF candidate_time.status = "raised" THEN candidate_time
        ELSE IF ~After(reference, candidate_time.value)
             THEN Replace([candidate_time.value EXCEPT !.year = @ - 1])
             ELSE candidate_time

\* RenameProcessor.find_matching_date: the candidate in the reference's year,
\* or in the year before when replace() raises ValueError (a second
\* ValueError leaves the method); one more year back when the candidate is
\* after the reference (that replace() may raise too).
FindMatchingDate(recording_info, reference) ==
    LET first == Replace(Candidate(recording_info, reference.year))
        candidate_time == IF first.status = "returned" THEN first
                          ELSE Replace(Candidate(recording_info, reference.year - 1))
    IN  IF candidate_time.status = "raised" THEN candidate_time
        ELSE IF After(candidate_time.value, reference)
             THEN Replace([candidate_time.value EXCEPT !.year = @ - 1])
             ELSE candidate_time

\* The inputs find_matching_date is applied to: the months and days at the
\* ends of the year and around the end of February, with fields outside
\* their ranges (day 0, day 32, hour 25, minute 61) as parse_filename can
\* deliver them.
InfoMonths == {1, 2, 3, 12}
InfoDays == {0, 1, 28, 29, 30, 31, 32}
InfoHours == {0, 10, 23, 25}
InfoMinutes == {0, 30, 59, 61}
Infos == {RecordingInfo(mo, d, h, mi) :
              mo \in InfoMonths, d \in InfoDays, h \in InfoHours, mi \in InfoMinutes}

ReferenceDays == {<<1, 1>>, <<2, 28>>, <<2, 29>>, <<3, 1>>, <<12, 31>>}
ReferenceTimes == {<<0, 0, 0, 0>>, <<10, 30, 0, 0>>, <<10, 30, 15, 500>>,
                   <<23, 59, 59, 999999>>}
References ==
    {dt \in {DateTime(y, md[1], md[2], t[1], t[2], t[3], t[4]) :
                 y \in Years, md \in ReferenceDays, t \in ReferenceTimes} :
        ValidDateTime(dt)}

NoResult == [status |-> "none", value |-> NoDateTime, exc |-> "none"]

\* --------------------------------------------- RenameProcessor: filenames
\* A filename is a sequence of characters, each a one-character string;
\* "LF" stands for the newline character.
DigitChars == <<"0", "1", "2", "3", "4", "5", "6", "7", "8", "9">>

Letters == {"A", "B", "C", "D", "E", "F", "G", "H", "I", "J", "K", "L", "M",
            "N", "O", "P", "Q", "R", "S", "T", "U", "V", "W", "X", "Y", "Z",
            "a", "b", "c", "d", "e", "f", "g", "h", "i", "j", "k", "l", "m",
            "n", "o", "p", "q", "r", "s", "t", "u", "v", "w", "x", "y", "z"}

\* The classes \d and \w of the regular expression.
IsDigit(c) == c \in Range(DigitChars)
IsWord(c) == IsDigit(c) \/ c \in Letters \/ c = "_"

\* int() of a string of digits.
DigitValue(c) == (CHOOSE i \in 1..Len(DigitChars) : DigitChars[i] = c) - 1

RECURSIVE IntOf(_)
IntOf(digits) ==
    IF digits = <<>> THEN 0
    ELSE 10 * IntOf(SubSeq(digits, 1, Len(digits) - 1))
         + DigitValue(digits[Len(digits)])

\* The length of the longest prefix of s made of characters of one class.
DigitRun(s) ==
    CHOOSE k \in 0..Len(s) :
        /\ \A i \in 1..k : IsDigit(s[i])
        /\ k = Len(s) \/ ~IsDigit(s[k + 1])

WordRun(s) ==
    CHOOSE k \in 0..Len(s) :
        /\ \A i \in 1..k : IsWord(s[i])
        /\ k = Len(s) \/ ~IsWord(s[k + 1])

Drop(s, k) == SubSeq(s, k + 1, Len(s))

\* `$`: the end of the string, or just before a newline that ends it.
AtEnd(s) == s = <<>> \/ s = <<"LF">>

\* `(?:\..*)?$`: nothing, or a dot and then anything but a newline.
MatchesExtension(s) ==
    \/ AtEnd(s)
    \/ /\ s # <<>>
       /\ Head(s) = "."
       /\ \A i \in 2..(Len(s) - 1) : s[i] # "LF"

\* regex.match(filename) for
\*   ^(?P<day>\d{1,2}) (?P<month>\w+) at (?P<hours>\d{2})[:-](?P<minutes>\d{2})(?:\..*)?$
\* Every group is followed by a character outside its class, so each group
\* is the longest run of its class.
RegexMatch(name) ==
    LET nd == DigitRun(name)
        after_day == Drop(name, nd)
        month_on == Drop(after_day, 1)
        nw == WordRun(month_on)
        after_month == Drop(month_on, nw)
        time_on == Drop(after_month, 4)
        matches ==
            /\ nd \in 1..2
            /\ after_day # <<>> /\ Head(after_day) = " "
            /\ nw >= 1
            /\ Len(after_month) >= 4
            /\ SubSeq(after_month, 1, 4) = <<" ", "a", "t", " ">>
            /\ Len(time_on) >= 5
            /\ IsDigit(time_on[1]) /\ IsDigit(time_on[2])
            /\ time_on[3] \in {":", "-"}
            /\ IsDigit(time_on[4]) /\ IsDigit(time_on[5])
            /\ MatchesExtension(Drop(time_on, 5))
    IN  IF matches
        THEN [matched |-> TRUE,
              day |-> SubSeq(name, 1, nd),
              month |-> SubSeq(month_on, 1, nw),
              hours |-> SubSeq(time_on, 1, 2),
              minutes |-> SubSeq(time_on, 4, 5)]
        ELSE [matched |-> FALSE, day |-> <<>>, month |-> <<>>,
              hours |-> <<>>, minutes |-> <<>>]

\* The month list of parse_filename, in its order.
MonthNames == << <<"J", "a", "n">>, <<"F", "e", "b">>, <<"M", "a", "r">>,
                 <<"A", "p", "r">>, <<"M", "a", "y">>, <<"J", "u", "n">>,
                 <<"J", "u", "l">>, <<"A", "u", "g">>, <<"S", "e", "p", "t">>,
                 <<"O", "c", "t">>, <<"N", "o", "v">>, <<"D", "e", "c">> >>

NoException == [type |-> "none", message |-> <<>>]

\* InvalidFilenameError.unexpected_format(filename).
UnexpectedFormat(name) ==
    [type |-> "InvalidFilenameError",
     message |-> <<"Filename '">> \o name \o <<"' does not match expected format">>]

\* Mutant of UnknownMonth: the message of unexpected_format.
UnknownMonthAsFormat(month) ==
    [type |-> "InvalidFilenameError",
     message |-> <<"Filename '">> \o month \o <<"' does not match expected format">>]

\* InvalidFilenameError.unknown_month(month).
UnknownMonth(month) ==
    [type |-> "InvalidFilenameError",
     message |-> <<"Unknown month '">> \o month \o <<"' in filename">>]

\* RenameProcessor.parse_filename.
ParseFilename(name) ==
    LET match == RegexMatch(name)
    IN  IF ~match.matched
        THEN [status |-> "raised", value |-> NoInfo, exc |-> UnexpectedFormat(name)]
        ELSE IF \A i \in 1..Len(MonthNames) : MonthNames[i] # match.month
        THEN [status |-> "raised", value |-> NoInfo, exc |-> UnknownMonth(match.month)]
        ELSE LET month_index == CHOOSE i \in 1..Len(MonthNames) :
                                    MonthNames[i] = match.month
             IN  [status |-> "returned",
                  value |-> RecordingInfo(month_index, IntOf(match.day),
                                          IntOf(match.hours), IntOf(match.minutes)),
                  exc |-> NoException]

NoParse == [status |-> "none", value |-> NoInfo, exc |-> NoException]

\* The filenames parse_filename is applied to: every way of putting together
\* a day, a month word, the " at " part, an hour, a separator, a minute and
\* an ending, the well-formed parts and the malformed ones.
DayTokens == {<<"5">>, <<"2", "3">>, <<"0">>, <<"3", "2">>, <<"1", "2", "3">>, <<>>}
MonthTokens == {<<"J", "a", "n">>, <<"F", "e", "b">>, <<"A", "u", "g">>,
                <<"S", "e", "p", "t">>, <<"S", "e", "p">>, <<"X", "y", "z">>,
                <<"a", "u", "g">>, <<"1", "0">>}
AtTokens == {<<" ", "a", "t", " ">>, <<" ">>}
HourTokens == {<<"1", "0">>, <<"0", "1">>, <<"2", "5">>, <<"1">>}
TimeSeparators == {<<":">>, <<"-">>, <<>>}
MinuteTokens == {<<"3", "0">>, <<"0", "5">>, <<"6", "1">>}
EndTokens == {<<>>, <<".", "m", "4", "a">>, <<"m", "4", "a">>,
              <<".", "t", "a", "r", ".", "g", "z">>, <<"LF">>}
Filenames ==
    {d \o <<" ">> \o mo \o at \o h \o sep \o mi \o e :
        d \in DayTokens, mo \in MonthTokens, at \in AtTokens, h \in HourTokens,
        sep \in TimeSeparators, mi \in MinuteTokens, e \in EndTokens}

\* ----------------------------------------------- RenameProcessor.process
Pad2(n) == <<DigitChars[((n \div 10) % 10) + 1], DigitChars[(n % 10) + 1]>>
Pad4(n) == Pad2(n \div 100) \o Pad2(n % 100)

\* datetime.strftime("%Y-%m-%d-%H-%M").
Strftime(dt) ==
    Pad4(dt.year) \o <<"-">> \o Pad2(dt.month) \o <<"-">> \o Pad2(dt.day)
        \o <<"-">> \o Pad2(dt.hour) \o <<"-">> \o Pad2(dt.minute)

\* Path.suffix: from the last dot of the name on, unless the name has no
\* dot past its first character.
Suffix(name) ==
    LET dots == {i \in 2..Len(name) : name[i] = "."}
    IN  IF dots = {} THEN <<>>
        ELSE SubSeq(name, CHOOSE i \in dots : \A j \in dots : j <= i, Len(name))

FilePath(dir, name) == [dir |-> dir, name |-> name]
NoFilePath == FilePath("", <<>>)
\* A file: its content (a sequence, so that any two contents compare) and
\* its modification time.
File(content, mtime) == [content |-> content, mtime |-> mtime]

\* The path RenameProcessor.process writes for an input name and its mtime,
\* when parse_filename and find_matching_date both return.
OutputPath(name, mtime) ==
    FilePath(OutputDirectory("rename"),
             Strftime(FindMatchingDate(ParseFilename(name).value, mtime).value)
                 \o Suffix(name))

RenameReturned(p) == [status |-> "returned", value |-> p, exc |-> "none"]
RenameRaised(e) == [status |-> "raised", value |-> NoFilePath, exc |-> e]
NoRename == [status |-> "none", value |-> NoFilePath, exc |-> "none"]

\* What the operating system can refuse during one call: nothing, the
\* stat(), the mkdir(), the copy before it has written, the copy half-way.
OsFailures == {"none", "stat", "mkdir", "copy", "copy_partial"}

\* The output directory of the rename processor as an entry of the file
\* system, and what a directory is in place of a file's content.
OutputDir == FilePath(OutputDirectory("rename"), <<>>)
Directory == File(<<"<directory>">>, NoDateTime)

\* The files with p written (created or overwritten).
WithFile(files, p, f) ==
    [q \in DOMAIN files \cup {p} |-> IF q = p THEN f ELSE files[q]]

\* output_directory.mkdir(parents=True, exist_ok=True).
Mkdir(files) ==
    IF OutputDir \in DOMAIN files THEN files
    ELSE WithFile(files, OutputDir, Directory)

\* Mutant of RenameProcess: shutil.move in place of shutil.copy2.
RenameProcessMove ==
    /\ rn_pc = "caller"
    /\ LET input_path == FilePath(InputDirectory, filename)
           recording_info == ParseFilename(filename)
           recording_datetime == FindMatchingDate(recording_info.value, reference_time)
           output_path == OutputPath(filename, reference_time)
           with_directory == Mkdir(rn_files)
       IN  \E os \in OsFailures :
             IF os = "stat"
             THEN /\ rn_result' = RenameRaised("OSError")
                  /\ rn_files' = rn_files
             ELSE IF recording_info.status = "raised"
             THEN /\ rn_result' = RenameRaised(recording_info.exc.type)
                  /\ rn_files' = rn_files
             ELSE IF recording_datetime.status = "raised"
             THEN /\ rn_result' = RenameRaised(recording_datetime.exc)
                  /\ rn_files' = rn_files
             ELSE IF os = "mkdir"
             THEN /\ rn_result' = RenameRaised("OSError")
                  /\ rn_files' = rn_files
             ELSE IF os = "copy"
             THEN /\ rn_result' = RenameRaised("OSError")
                  /\ rn_files' = with_directory
             ELSE IF os = "copy_partial"
             THEN /\ rn_result' = RenameRaised("OSError")
                  /\ rn_files' = WithFile(with_directory, output_path,
                                          File(<<"partial">>, NoDateTime))
             ELSE /\ rn_result' = RenameReturned(output_path)
                  /\ rn_files' = [q \in (DOMAIN with_directory \cup {output_path})
                                             \ {input_path} |->
                                    IF q = output_path THEN rn_files[input_path]
                                    ELSE with_directory[q]]
    /\ rn_pc' = IF rn_result'.status = "returned" THEN "returned" ELSE "raised"
    /\ UNCHANGED <<filename, parsed, info, reference_time, matched>>
    /\ UNCHANGED <<monitorVars, daemonVars, pipelineVars>>

\* Mutant of RenameProcess: the output directory is made before the name is
\* parsed.
RenameProcessMkdirFirst ==
    /\ rn_pc = "caller"
    /\ LET input_path == FilePath(InputDirectory, filename)
           recording_info == ParseFilename(filename)
           recording_datetime == FindMatchingDate(recording_info.value, reference_time)
           output_path == OutputPath(filename, reference_time)
           with_directory == Mkdir(rn_files)
       IN  \E os \in OsFailures :
             IF os = "stat"
             THEN /\ rn_result' = RenameRaised("OSError")
                  /\ rn_files' = rn_files
             ELSE IF os = "mkdir"
             THEN /\ rn_result' = RenameRaised("OSError")
                  /\ rn_files' = rn_files
             ELSE IF recording_info.status = "raised"
             THEN /\ rn_result' = RenameRaised(recording_info.exc.type)
                  /\ rn_files' = with_directory
             ELSE IF recording_datetime.status = "raised"
             THEN /\ rn_result' = RenameRaised(recording_datetime.exc)
                  /\ rn_files' = with_directory
             ELSE IF os = "copy"
             THEN /\ rn_result' = RenameRaised("OSError")
                  /\ rn_files' = with_directory
             ELSE IF os = "copy_partial"
             THEN /\ rn_result' = RenameRaised("OSError")
                  /\ rn_files' = WithFile(with_directory, output_path,
                                          File(<<"partial">>, NoDateTime))
             ELSE /\ rn_result' = RenameReturned(output_path)
                  /\ rn_files' = WithFile(with_directory, output_path, rn_files[input_path])
    /\ rn_pc' = IF rn_result'.status = "returned" THEN "returned" ELSE "raised"
    /\ UNCHANGED <<filename, parsed, info, reference_time, matched>>
    /\ UNCHANGED <<monitorVars, daemonVars, pipelineVars>>

\* RenameProcessor.process(input_path), from its call to its return or to
\* the exception that leaves it: stat() of the input, parse_filename,
\* find_matching_date, mkdir of the output directory, shutil.copy2.
RenameProcess ==
    /\ rn_pc = "caller"
    /\ LET input_path == FilePath(InputDirectory, filename)
           recording_info == ParseFilename(filename)
           recording_datetime == FindMatchingDate(recording_info.value, reference_time)
           output_path == OutputPath(filename, reference_time)
           with_directory == Mkdir(rn_files)
       IN  \E os \in OsFailures :
             IF os = "stat"
             THEN /\ rn_result' = RenameRaised("OSError")
                  /\ rn_files' = rn_files
             ELSE IF recording_info.status = "raised"
             THEN /\ rn_result' = RenameRaised(recording_info.exc.type)
                  /\ rn_files' = rn_files
             ELSE IF recording_datetime.status = "raised"
             THEN /\ rn_result' = RenameRaised(recording_datetime.exc)
                  /\ rn_files' = rn_files
             ELSE IF os = "mkdir"
             THEN /\ rn_result' = RenameRaised("OSError")
                  /\ rn_files' = rn_files
             ELSE IF os = "copy"
             THEN /\ rn_result' = RenameRaised("OSError")
                  /\ rn_files' = with_directory
             ELSE IF os = "copy_partial"
             THEN /\ rn_result' = RenameRaised("OSError")
                  /\ rn_files' = WithFile(with_directory, output_path,
                                          File(<<"partial">>, NoDateTime))
             ELSE /\ rn_result' = RenameReturned(output_path)
                  /\ rn_files' = WithFile(with_directory, output_path, rn_files[input_path])
    /\ rn_pc' = IF rn_result'.status = "returned" THEN "returned" ELSE "raised"
    /\ UNCHANGED <<filename, parsed, info, reference_time, matched>>
    /\ UNCHANGED <<monitorVars, daemonVars, pipelineVars>>

\* No call of the rename processor's methods is under way.
RenameIdle ==
    /\ filename = <<>>
    /\ parsed = NoParse
    /\ info = NoInfo
    /\ reference_time = NoDateTime
    /\ matched = NoResult
    /\ rn_pc = "idle"
    /\ rn_files = <<>>
    /\ rn_result = NoRename

\* ------------------------------------------------------- specifications
\* The directory as the daemon finds it: up to MaxExisting entries of any
\* kind, listed by iterdir() in the order of their names.
Listings ==
    UNION {[1..k -> EntryKinds] : k \in 0..MaxExisting}

\* Daemon.__init__ has run and Daemon.run is entered.
Init ==
    /\ \E ks \in Listings :
         /\ listing = [i \in 1..Len(ks) |->
                         [name |-> i, is_dir |-> ks[i].is_dir,
                          suffix |-> ks[i].suffix, size |-> ks[i].size]]
         /\ fs = [n \in Names |-> IF n <= Len(ks) THEN ks[n] ELSE Absent]
    /\ scan_on_startup \in BOOLEAN
    /\ pending = <<>>
    /\ observer = "new"
    /\ pc = "start"
    /\ path = NoPath
    /\ processors = FromConfig
    /\ pl_pc = "idle"
    /\ pl_idx = 0
    /\ pl_input = NoPath
    /\ pl_error = NoError
    /\ pl_result = NoValue
    /\ calls = <<>>
    /\ artifacts = {}
    /\ discovered = <<>>
    /\ picked = <<>>
    /\ starting = <<>>
    /\ finished = {}
    /\ failed = {}
    /\ received = 0
    /\ unprocessed_log = 0
    /\ RenameIdle

MainThread ==
    \/ MonitorStart
    \/ CheckPending
    \/ Dequeue
    \/ Idle
    \/ Process
    \/ ProcessorReturns
    \/ ProcessorRaises
    \/ PipelineReturn
    \/ LogFinished
    \/ Unlink
    \/ UnlinkFails
    \/ HandleFailure
    \/ Wake
    \/ MonitorStop

Next ==
    \/ MainThread
    \/ OnCreated
    \/ OnModified
    \/ HandleTermination

Spec == Init /\ [][Next]_vars

\* The main thread always runs on: weak fairness of its steps.  Signals and
\* file-system events are under no obligation to happen.
FairSpec == Spec /\ WF_vars(MainThread)

\* Pipeline.process on its own: a Pipeline built from any list of processors
\* is given one input path by a caller.
ProcessorLists == UNION {[1..k -> ProcessorNames] : k \in 0..MaxProcessors}

PipelineInit ==
    /\ listing = <<>>
    /\ fs = [n \in Names |-> [state |-> "present", is_dir |-> FALSE,
                              suffix |-> ".m4a", size |-> 1]]
    /\ scan_on_startup = FALSE
    /\ pending = <<>>
    /\ observer = "new"
    /\ pc = "caller"
    /\ path = NoPath
    /\ processors \in ProcessorLists
    /\ pl_pc = "idle"
    /\ pl_idx = 0
    /\ pl_input = NoPath
    /\ pl_error = NoError
    /\ pl_result = NoValue
    /\ calls = <<>>
    /\ artifacts = {}
    /\ discovered = <<>>
    /\ picked = <<>>
    /\ starting = <<>>
    /\ finished = {}
    /\ failed = {}
    /\ received = 0
    /\ unprocessed_log = 0
    /\ RenameIdle

\* pipeline.process(input_path) called directly.
CallProcess ==
    /\ pc = "caller"
    /\ pl_pc = "idle"
    /\ \E n \in Names : PipelineBegin(InputPath(n))
    /\ UNCHANGED <<monitorVars, daemonVars>>
    /\ UNCHANGED renameVars

PipelineNext ==
    \/ CallProcess
    \/ ProcessorReturns
    \/ ProcessorRaises
    \/ PipelineReturn

PipelineSpec == PipelineInit /\ [][PipelineNext]_vars

\* ------------------------------------------------ the rename processor's
\* methods on their own.  Neither the daemon nor a pipeline is running.
DaemonIdle ==
    /\ listing = <<>>
    /\ fs = [n \in Names |-> Absent]
    /\ scan_on_startup = FALSE
    /\ pending = <<>>
    /\ observer = "new"
    /\ pc = "caller"
    /\ path = NoPath
    /\ processors = FromConfig
    /\ pl_pc = "idle"
    /\ pl_idx = 0
    /\ pl_input = NoPath
    /\ pl_error = NoError
    /\ pl_result = NoValue
    /\ calls = <<>>
    /\ artifacts = {}
    /\ discovered = <<>>
    /\ picked = <<>>
    /\ starting = <<>>
    /\ finished = {}
    /\ failed = {}
    /\ received = 0
    /\ unprocessed_log = 0

\* find_matching_date applied to one RecordingInfo and one reference.
DateInit ==
    /\ DaemonIdle
    /\ info \in Infos
    /\ reference_time \in References
    /\ matched = NoResult
    /\ filename = <<>>
    /\ parsed = NoParse
    /\ rn_pc = "idle"
    /\ rn_files = <<>>
    /\ rn_result = NoRename

CallFindMatchingDate ==
    /\ matched = NoResult
    /\ matched' = FindMatchingDate(info, reference_time)
    /\ UNCHANGED <<filename, parsed, info, reference_time, rn_pc, rn_files, rn_result>>
    /\ UNCHANGED <<monitorVars, daemonVars, pipelineVars>>

DateSpec == DateInit /\ [][CallFindMatchingDate]_vars

\* parse_filename applied to one filename.
ParseInit ==
    /\ DaemonIdle
    /\ filename \in Filenames
    /\ parsed = NoParse
    /\ info = NoInfo
    /\ reference_time = NoDateTime
    /\ matched = NoResult
    /\ rn_pc = "idle"
    /\ rn_files = <<>>
    /\ rn_result = NoRename

CallParseFilename ==
    /\ parsed = NoParse
    /\ filename # <<>>
    /\ parsed' = ParseFilename(filename)
    /\ UNCHANGED <<filename, info, reference_time, matched, rn_pc, rn_files, rn_result>>
    /\ UNCHANGED <<monitorVars, daemonVars, pipelineVars>>

ParseSpec == ParseInit /\ [][CallParseFilename]_vars

\* RenameProcessor.process called once on an existing input file whose name
\* is one of these and whose mtime is one of the references; the output
\* directory may exist, and a file may be in it under the name the call will
\* write.
RenameFilenames ==
    {d \o <<" ">> \o mo \o <<" ", "a", "t", " ">> \o h \o <<":">> \o mi \o e :
        d \in {<<"2", "9">>, <<"3", "2">>, <<"1">>},
        mo \in {<<"F", "e", "b">>, <<"D", "e", "c">>, <<"X", "y", "z">>},
        h \in {<<"1", "0">>},
        mi \in {<<"3", "0">>, <<"3">>},
        e \in {<<".", "m", "4", "a">>, <<>>}}

RenameInit ==
    /\ DaemonIdle
    /\ filename \in RenameFilenames
    /\ reference_time \in References
    /\ parsed = NoParse
    /\ info = NoInfo
    /\ matched = NoResult
    /\ rn_pc = "caller"
    /\ rn_result = NoRename
    /\ \E made \in BOOLEAN, occupied \in BOOLEAN :
         LET input_path == FilePath(InputDirectory, filename)
             written == IF /\ made
                           /\ occupied
                           /\ ParseFilename(filename).status = "returned"
                           /\ FindMatchingDate(ParseFilename(filename).value,
                                               reference_time).status = "returned"
                        THEN {OutputPath(filename, reference_time)}
                        ELSE {}
             made_dir == IF made THEN {OutputDir} ELSE {}
         IN  rn_files = [p \in {input_path} \cup made_dir \cup written |->
                           IF p = input_path THEN File(<<"recording">>, reference_time)
                           ELSE IF p = OutputDir THEN Directory
                           ELSE File(<<"older">>, NoDateTime)]

RenameSpec == RenameInit /\ [][RenameProcess]_vars

\* The daemon loop over the pipeline it builds, [rename], with the rename
\* processor's own file names: two recordings of the input directory have
\* been discovered and wait in the queue.
RecordingNames ==
    {d \o <<" ">> \o mo \o <<" ", "a", "t", " ", "1", "0">> \o sep
       \o <<"3", "0", ".", "m", "4", "a">> :
        d \in {<<"5">>, <<"0", "5">>},
        mo \in {<<"A", "u", "g">>, <<"X", "y", "z">>},
        sep \in {<<":">>, <<"-">>}}

\* The modification times of the recordings: the last evening of each year.
RecordingMtimes ==
    {r \in References : r.month = 12 /\ r.hour = 23 /\ r.second = 59}

RecordingsInit ==
    /\ \E n1 \in RecordingNames, n2 \in RecordingNames,
          t1 \in RecordingMtimes, t2 \in RecordingMtimes :
         LET p1 == FilePath(InputDirectory, n1)
             p2 == FilePath(InputDirectory, n2)
         IN  /\ n1 # n2
             /\ rn_files = [p \in {p1, p2} |->
                              IF p = p1 THEN File(n1, t1) ELSE File(n2, t2)]
             /\ pending = <<p1, p2>>
             /\ discovered = <<p1, p2>>
    /\ listing = <<>>
    /\ fs = [n \in Names |-> Absent]
    /\ scan_on_startup = FALSE
    /\ observer = "running"
    /\ pc = "loop"
    /\ path = NoPath
    /\ processors = FromConfig
    /\ pl_pc = "idle"
    /\ pl_idx = 0
    /\ pl_input = NoPath
    /\ pl_error = NoError
    /\ pl_result = NoValue
    /\ calls = <<>>
    /\ artifacts = {}
    /\ picked = <<>>
    /\ starting = <<>>
    /\ finished = {}
    /\ failed = {}
    /\ received = 0
    /\ unprocessed_log = 0
    /\ filename = <<>>
    /\ parsed = NoParse
    /\ info = NoInfo
    /\ reference_time = NoDateTime
    /\ matched = NoResult
    /\ rn_pc = "idle"
    /\ rn_result = NoRename

\* `if self.pending:` taken, popleft, and pipeline.process(path) enters
\* RenameProcessor.process for the file, whose stat() will give its mtime.
PickRecording ==
    /\ pc = "loop"
    /\ rn_pc = "idle"
    /\ pending # <<>>
    /\ LET r == PopLeft(pending) IN
       /\ pending' = r[2]
       /\ picked' = Append(picked, r[1])
       /\ starting' = Append(starting, r[1])
       /\ filename' = r[1].name
       /\ reference_time' = rn_files[r[1]].mtime
    /\ rn_pc' = "caller"
    /\ rn_result' = NoRename
    /\ UNCHANGED <<fs, listing, scan_on_startup, observer, discovered, pc, path,
                   finished, failed, received, unprocessed_log, processors, pl_pc,
                   pl_idx, pl_input, pl_error, pl_result, calls, artifacts,
                   parsed, info, matched, rn_files>>

\* The rest of the loop body once the pipeline is back: after a return the
\* "Finished processing" log line and path.unlink(), which removes the
\* original or raises OSError out of run; after PipelineExecutionError the
\* "Pipeline execution failed" log line.
FinishRecording ==
    /\ pc = "loop"
    /\ rn_pc \in {"returned", "raised"}
    /\ LET p == FilePath(InputDirectory, filename) IN
       IF rn_pc = "returned"
       THEN /\ finished' = finished \cup {p}
            /\ failed' = failed
            /\ \E unlinked \in BOOLEAN :
                 IF unlinked
                 THEN /\ rn_files' = [q \in DOMAIN rn_files \ {p} |-> rn_files[q]]
                      /\ pc' = "loop"
                 ELSE /\ rn_files' = rn_files
                      /\ pc' = "crashed"
       ELSE /\ failed' = failed \cup {p}
            /\ UNCHANGED <<finished, rn_files, pc>>
    /\ rn_pc' = "idle"
    /\ UNCHANGED <<monitorVars, path, picked, received, unprocessed_log,
                   pipelineVars>>
    /\ UNCHANGED <<filename, parsed, info, reference_time, matched, rn_result>>

RecordingsNext ==
    \/ PickRecording
    \/ RenameProcess
    \/ FinishRecording

RecordingsSpec == RecordingsInit /\ [][RecordingsNext]_vars

\* ---------------------------------------------------------------- claims
\* The positions of the calls of the current run that raised.
RaisedCalls == {i \in 1..Len(calls) : calls[i].outcome = "raised"}

\* C1: Pipeline.process aborts on the first failure: once the call of the
\* processor at position k has raised, no processor at a later position is
\* invoked for that input, and the raising call is the last one of the run.
C1_AbortOnFirstFailure ==
    \A i \in RaisedCalls :
        /\ i = Len(calls)
        /\ \A j \in 1..Len(calls) : calls[j].processor <= calls[i].processor

\* C1 witness: a processor other than the last has raised, after an earlier
\* one returned.
C1_Witness ==
    /\ pl_pc = "raised"
    /\ Len(calls) >= 2
    /\ calls[Len(calls)].processor < Len(processors)

\* The steps that take a file out of the input directory.
Unlinked(n) == fs[n].state = "present" /\ fs'[n].state # "present"

\* The run of Pipeline.process in progress was given InputPath(n) and has
\* returned, every processor having returned.
RunSucceededFor(n) ==
    /\ pl_pc = "returned"
    /\ starting # <<>>
    /\ starting[Len(starting)] = InputPath(n)
    /\ Len(calls) = Len(processors)
    /\ \A i \in 1..Len(calls) : calls[i].outcome = "returned"

\* C2: the original is deleted only after Pipeline.process completed
\* successfully for it: a step removes a file from the input directory only
\* when the pipeline run for that file has returned, and every file that is
\* gone was logged as finished and never as failed.
C2_DeleteOnlyAfterSuccess ==
    /\ [][\A n \in Names : Unlinked(n) => RunSucceededFor(n)]_vars
    /\ [](\A n \in Names : fs[n].state = "removed" =>
             InputPath(n) \in finished /\ InputPath(n) \notin failed)

\* C2 witness: one original was removed after its run, another one whose run
\* failed is still in the input directory, and a signal has ended the loop.
C2_Witness ==
    /\ \E n \in Names : fs[n].state = "removed"
    /\ \E m \in Names : InputPath(m) \in failed /\ Present(m)
    /\ pc = "stopped"

LoopLeft == pc \in {"shutdown", "stopped", "exited"}

\* C3 as stated: when the daemon loop has been left on a termination signal,
\* the Pipeline.process call that was running has run to completion.
C3_RunsToCompletion ==
    LoopLeft => pl_pc \in {"idle", "returned", "raised"}

\* C3 amended: cancellation is preemptive.  A signal that arrives while
\* Pipeline.process is running makes the loop exit at once with the call
\* abandoned: the call neither returns nor raises PipelineExecutionError,
\* no further processor is invoked, and the original stays where it is,
\* logged neither as finished nor as failed.
C3_Preemptive ==
    /\ [][(received' > received /\ pl_pc = "running") =>
             /\ pc' = "shutdown"
             /\ pl_pc' = "interrupted"
             /\ fs' = fs
             /\ finished' = finished /\ failed' = failed]_vars
    /\ [][pl_pc = "interrupted" =>
             /\ pl_pc' = "interrupted"
             /\ calls' = calls]_vars
    /\ [](pl_pc = "interrupted" =>
             /\ LoopLeft
             /\ Present(path.name)
             /\ path \notin finished \cup failed)

\* C3 witness: the loop was left while a processor call was in progress.
C3_Witness ==
    /\ pc = "shutdown"
    /\ pl_pc = "interrupted"
    /\ calls # <<>>
    /\ calls[Len(calls)].outcome = "interrupted"

\* C4 as stated: once a pipeline run has failed, every path in the queue is
\* eventually given to the pipeline, unless a termination signal arrives.
C4_FailureNeverStops ==
    \A n \in Names :
        []((failed # {} /\ InputPath(n) \in Range(pending)) =>
             <>(InputPath(n) \in Range(starting) \/ received > 0))

\* C5: a processor failure leaves Pipeline.process as PipelineExecutionError
\* naming the first processor that raised, with that processor's error as
\* the cause, and as nothing else.
C5_SingleErrorType ==
    RaisedCalls # {} =>
        LET k == CHOOSE i \in RaisedCalls : \A j \in RaisedCalls : i <= j IN
        /\ pl_pc = "raised"
        /\ pl_error.type = "PipelineExecutionError"
        /\ pl_error.processor = processors[calls[k].processor]
        /\ pl_error.cause = calls[k].exc
        /\ pl_result = NoValue

\* C5 witness: the second or a later processor raised OSError.
C5_Witness ==
    /\ pl_pc = "raised"
    /\ Len(calls) >= 2
    /\ calls[Len(calls)].exc = "OSError"
    /\ pl_error.cause = "OSError"

\* C6: files are processed in the order of their discovery: the paths the
\* pipeline was started for, in order, are the first paths appended to the
\* queue, in order (and so are the paths picked).
C6_Fifo ==
    /\ IsPrefix(picked, discovered)
    /\ IsPrefix(starting, picked)

\* C6 witness: a path was just taken from a queue that held another one
\* behind it, after an earlier pipeline run.
C6_Witness ==
    /\ pc = "picked"
    /\ pending # <<>>
    /\ Len(starting) >= 1

\* The paths picked whose pipeline run has not been logged as over.
InFlight == {p \in Range(picked) : p \notin finished \cup failed}

\* C7: at most one file is in flight: a step takes at most one path from the
\* queue, and only when the run of every path taken before is over.
C7_OneInFlight ==
    /\ [][Len(pending') < Len(pending) =>
             /\ pending' = Tail(pending)
             /\ InFlight = {}]_vars
    /\ [](Cardinality(InFlight) <= 1)

\* C7 witness: a pipeline run is in progress while the watcher has appended
\* two more paths.
C7_Witness ==
    /\ pc = "in_pipeline"
    /\ pl_pc = "running"
    /\ Len(pending) >= 2

\* A non-directory, non-empty entry with an allowed extension.
Eligible(e) == ~e.is_dir /\ e.suffix \in Extensions /\ e.size > 0

\* C8 as stated: with the startup scan enabled, once the observer is started
\* every eligible entry of the start-up listing has been enqueued, ahead of
\* anything a live event appends.
C8_ScanEnqueuesAll ==
    (scan_on_startup /\ observer # "new") =>
        \A i \in 1..Len(listing) :
            Eligible(listing[i]) =>
                \E j \in 1..Len(discovered) :
                    /\ discovered[j] = InputPath(listing[i].name)
                    /\ j <= Len(listing)

\* C9: every path appended to the queue is, when it is appended, a non-empty
\* non-directory file of the monitored directory with an allowed extension.
C9_QueuedWereEligible ==
    [][Len(pending') > Len(pending) =>
          \A i \in (Len(pending) + 1)..Len(pending') :
              /\ pending'[i].dir = InputDirectory
              /\ pending'[i].name \in Names
              /\ fs'[pending'[i].name].state = "present"
              /\ Eligible(fs'[pending'[i].name])]_vars

\* C9 witness: the queue holds a path from the startup scan and one from a
\* creation event.
C9_Witness ==
    /\ Len(pending) >= 2
    /\ pending[1].name <= Len(listing)
    /\ pending[Len(pending)].name > Len(listing)

\* C10: after the daemon has reacted to a termination signal nothing is taken
\* from the queue, given to the pipeline or deleted, and the queue is only
\* counted for the log.
C10_QueueLeftOnShutdown ==
    /\ [][LoopLeft =>
             /\ IsPrefix(pending, pending')
             /\ picked' = picked
             /\ starting' = starting
             /\ calls' = calls
             /\ artifacts' = artifacts
             /\ finished' = finished
             /\ failed' = failed
             /\ \A n \in Names : Present(n) => fs'[n].state = "present"]_vars
    /\ [](pc = "stopped" => unprocessed_log = Len(pending))

\* C10 witness: run has returned with two paths left in the queue.
C10_Witness ==
    /\ pc = "stopped"
    /\ Len(pending) >= 2
    /\ unprocessed_log = Len(pending)

\* The output of the last call of the run.
LastOutput == ProcessorOutput(processors[calls[Len(calls)].processor],
                              calls[Len(calls)].input)

\* C11 as stated: when every processor succeeds, Pipeline.process returns the
\* output path of the last processor.
C11_ReturnsLastOutput ==
    (pl_pc = "returned" /\ calls # <<>>) => pl_result = LastOutput

\* C11 amended: when every processor succeeds, Pipeline.process returns None;
\* the output path of the last processor is the final value of its local
\* input_path and is not handed to the caller.
C11_ReturnsNone ==
    pl_pc = "returned" =>
        /\ pl_result = PyNone
        /\ Len(calls) = Len(processors)
        /\ \A i \in 1..Len(calls) : calls[i].outcome = "returned"
        /\ calls # <<>> => pl_input = LastOutput

\* C11 witness: a pipeline of three processors has returned.
C11_Witness ==
    /\ pl_pc = "returned"
    /\ Len(processors) = 3
    /\ Len(calls) = 3

\* The stages in their declared order, those without a section left out.
RECURSIVE StagesOf(_, _)
StagesOf(order, sections) ==
    IF order = <<>> THEN <<>>
    ELSE IF Head(order) \in sections
         THEN <<Head(order)>> \o StagesOf(Tail(order), sections)
         ELSE StagesOf(Tail(order), sections)

\* C12 as stated: the pipeline built from the configuration holds one
\* processor per configured stage, in the order rename, transcribe, cleanup,
\* a stage without a section being left out.
C12_PipelineFromConfig ==
    pc # "caller" =>
        processors = StagesOf(<<"rename", "transcribe", "cleanup">>, ConfigSections)

\* C13: when Pipeline.process fails at a processor, what the processors
\* before it have written stays: no step of the pipeline removes an output
\* file or touches the input directory, and after the failure the output of
\* every earlier processor of the run is in place.
C13_ArtifactsLeftInPlace ==
    /\ [][artifacts \subseteq artifacts' /\ fs' = fs]_vars
    /\ [](pl_pc = "raised" =>
             \A i \in 1..(Len(calls) - 1) :
                 ProcessorOutput(processors[calls[i].processor], calls[i].input)
                     \in artifacts)

\* C13 witness: the third processor raised after two earlier ones wrote
\* their outputs.
C13_Witness ==
    /\ pl_pc = "raised"
    /\ Len(calls) = 3
    /\ Cardinality(artifacts) >= 2

\* C14: whenever find_matching_date returns, its result has the month, day,
\* hour and minute of the RecordingInfo, zero seconds and microseconds, and
\* is not after the reference.
C14_ResultMatchesInfo ==
    matched.status = "returned" =>
        /\ matched.value.month = info.month
        /\ matched.value.day = info.day
        /\ matched.value.hour = info.hours
        /\ matched.value.minute = info.minutes
        /\ matched.value.second = 0
        /\ matched.value.microsecond = 0
        /\ ~After(matched.value, reference_time)

\* C14 witness: find_matching_date has returned for a reference that has
\* seconds and microseconds, on the reference's own date.
C14_Witness ==
    /\ matched.status = "returned"
    /\ reference_time.second # 0
    /\ reference_time.microsecond # 0
    /\ matched.value.year = reference_time.year
    /\ matched.value.month = reference_time.month
    /\ matched.value.day = reference_time.day

\* A RecordingInfo whose month is 1-12, whose day is a day of that month in
\* some year (29 February included) and whose hours and minutes are in range.
ValidInfo(i) ==
    /\ i.month \in 1..12
    /\ i.day \in 1..DaysInMonth(2024, i.month)
    /\ i.hours \in 0..23
    /\ i.minutes \in 0..59

\* The timestamps of year y that match the RecordingInfo and are not after
\* the reference.
MatchIn(i, y, reference) ==
    /\ ValidDateTime(Candidate(i, y))
    /\ ~After(Candidate(i, y), reference)

\* C15 as stated: for every valid RecordingInfo (29 February included) and
\* every reference, find_matching_date returns the most recent matching
\* timestamp: no matching timestamp lies after the result and not after the
\* reference.
C15_MostRecentMatch ==
    (matched # NoResult /\ ValidInfo(info)) =>
        /\ matched.status = "returned"
        /\ MatchIn(info, matched.value.year, reference_time)
        /\ \A y \in (matched.value.year + 1)..reference_time.year :
               ~MatchIn(info, y, reference_time)

\* C16 as stated: for every valid RecordingInfo and every reference,
\* find_matching_date returns a datetime and raises no error.
C16_NeverFails ==
    (matched # NoResult /\ ValidInfo(info)) => matched.status = "returned"

\* C17: the year of find_matching_date's result is the reference's year or
\* the year before it, and it is the year before exactly when the date
\* cannot be constructed in the reference's year or the same-year candidate
\* is strictly after the reference.
C17_YearRule ==
    matched.status = "returned" =>
        LET same_year == Candidate(info, reference_time.year)
        IN  /\ matched.value.year \in {reference_time.year, reference_time.year - 1}
            /\ matched.value.year = reference_time.year - 1
                   <=> (~ValidDateTime(same_year) \/ After(same_year, reference_time))

\* C17 witness: a later time on the reference's own date resolves to the
\* year before.
C17_Witness ==
    /\ matched.status = "returned"
    /\ info.month = reference_time.month
    /\ info.day = reference_time.day
    /\ info.hours > reference_time.hour
    /\ matched.value.year = reference_time.year - 1

\* The last element of a non-empty sequence.
Last(s) == s[Len(s)]

\* C18: the error parse_filename raises for an unknown month name can be
\* told apart from the one it raises for a malformed filename: both are
\* InvalidFilenameError, and the message is the unknown-month one exactly
\* when the filename has the expected shape, the unexpected-format one
\* exactly when it has not.
C18_UnknownMonthDistinct ==
    parsed.status = "raised" =>
        /\ parsed.exc.type = "InvalidFilenameError"
        /\ RegexMatch(filename).matched
               <=> /\ Head(parsed.exc.message) = "Unknown month '"
                   /\ Last(parsed.exc.message) = "' in filename"
        /\ ~RegexMatch(filename).matched
               <=> /\ Head(parsed.exc.message) = "Filename '"
                   /\ Last(parsed.exc.message) = "' does not match expected format"

\* C18 witness: a well-formed filename with the month word Xyz was refused.
C18_Witness ==
    /\ parsed.status = "raised"
    /\ RegexMatch(filename).matched
    /\ RegexMatch(filename).month = <<"X", "y", "z">>

\* C19 as stated: whenever parse_filename succeeds, month is in 1..12, day
\* in 1..31, hours in 0..23 and minutes in 0..59.
C19_FieldsInRange ==
    parsed.status = "returned" =>
        /\ parsed.value.month \in 1..12
        /\ parsed.value.day \in 1..31
        /\ parsed.value.hours \in 0..23
        /\ parsed.value.minutes \in 0..59

\* C20: RenameProcessor.process never deletes or modifies its input file:
\* after the call, returned or raised, the input file exists with the
\* content and the modification time it had before.
C20_InputUntouched ==
    rn_pc \in {"returned", "raised"} =>
        /\ FilePath(InputDirectory, filename) \in DOMAIN rn_files
        /\ rn_files[FilePath(InputDirectory, filename)]
               = File(<<"recording">>, reference_time)

\* C20 witness: the call returned with the copy written over an older file
\* of the same name.
C20_Witness ==
    /\ rn_pc = "returned"
    /\ rn_result.value \in DOMAIN rn_files
    /\ rn_files[rn_result.value] = File(<<"recording">>, reference_time)
    /\ rn_result.value # FilePath(InputDirectory, filename)

\* C21: Pipeline.process chains the processors: the i-th invocation of a call
\* is of the i-th processor of the list (list order, each at most once), the
\* first receives the path Pipeline.process was called with, and every later
\* one receives the path the processor before it returned.
C21_Chained ==
    pl_pc \in {"running", "returned", "raised"} =>
        /\ Len(calls) <= Len(processors)
        /\ \A i \in 1..Len(calls) :
               /\ calls[i].processor = i
               /\ i = 1 => calls[i].input = starting[Len(starting)]
               /\ i > 1 =>
                      /\ calls[i - 1].outcome = "returned"
                      /\ calls[i].input =
                             ProcessorOutput(processors[i - 1], calls[i - 1].input)

\* C21 witness: the third processor of a list of three different processors
\* has been invoked with the second one's output.
C21_Witness ==
    /\ Len(calls) = 3
    /\ Cardinality(Range(processors)) = 3
    /\ calls[3].input = ProcessorOutput(processors[2], calls[2].input)
    /\ calls[3].input # calls[2].input

\* How often p occurs in the sequence s.
Count(s, p) == Cardinality({i \in 1..Len(s) : s[i] = p})

\* C22: a failed file is not retried: no step puts a path whose pipeline run
\* failed on the pending queue, and a path is given to the pipeline at most
\* as often as it was discovered.
C22_NoRetry ==
    /\ [][\A p \in failed' : Count(pending', p) <= Count(pending, p)]_vars
    /\ [](\A n \in Names :
              Count(starting, InputPath(n)) <= Count(discovered, InputPath(n)))

\* C22 witness: after a failed run the daemon has gone on to another file,
\* the failed original still in the input directory and not in the queue.
C22_Witness ==
    /\ failed # {}
    /\ Len(starting) >= 2
    /\ pc = "sleep"
    /\ \A p \in failed : Present(p.name) /\ p \notin Range(pending)

\* C23: under every interleaving of the observer thread's appends with the
\* daemon loop's emptiness check and its popleft, the paths appended are, in
\* order, the paths taken followed by the paths still queued (none lost, none
\* taken more often than appended), and popleft never meets an empty deque.
C23_QueueSafe ==
    /\ discovered = picked \o pending
    /\ pc = "nonempty" => pending # <<>>

\* C23 witness: between the check and the popleft, with earlier files taken,
\* the deque holds more than the one path the check needed.
C23_Witness ==
    /\ pc = "nonempty"
    /\ picked # <<>>
    /\ Len(pending) >= 2

\* C24: when the filename fails to parse (malformed, or with an unknown
\* month), RenameProcessor.process raises with the file system as it was: the
\* output directory is not created, no output file is written, and the input
\* file stays in the input directory as it was.
C24_ParseFailureWritesNothing ==
    [][ParseFilename(filename).status = "raised" =>
           /\ rn_pc' = "raised"
           /\ rn_files' = rn_files
           /\ FilePath(InputDirectory, filename) \in DOMAIN rn_files']_vars

\* C24 witness: the call has raised InvalidFilenameError for a name with an
\* unknown month, and there is no output directory.
C24_Witness ==
    /\ rn_pc = "raised"
    /\ rn_result.exc = "InvalidFilenameError"
    /\ RegexMatch(filename).matched
    /\ OutputDir \notin DOMAIN rn_files
    /\ DOMAIN rn_files = {FilePath(InputDirectory, filename)}

\* The reference is on a whole minute and the RecordingInfo names that
\* very month, day, hour and minute.
SameInstant ==
    /\ reference_time.second = 0
    /\ reference_time.microsecond = 0
    /\ info = RecordingInfo(reference_time.month, reference_time.day,
                            reference_time.hour, reference_time.minute)

\* C25: when the RecordingInfo's month, day, hour and minute are those of
\* the reference and the reference has zero seconds and microseconds,
\* find_matching_date returns the reference itself, not the instant a year
\* earlier.
C25_ExactInstantKept ==
    (matched # NoResult /\ SameInstant) =>
        /\ matched.status = "returned"
        /\ matched.value = reference_time

\* C25 witness: find_matching_date has returned the reference for a
\* RecordingInfo that names the reference's own minute on 29 February.
C25_Witness ==
    /\ SameInstant
    /\ matched.status = "returned"
    /\ matched.value = reference_time
    /\ info.month = 2
    /\ info.day = 29

\* The ways of reading a name as '<1-2 digit day> <month word> at <HH><: or
\* -><MM>' followed by nothing or by '.' and any extension: the lengths of
\* the day and of the month word.
FormSplits(name) ==
    {s \in (1..2) \X (1..Len(name)) :
        LET nd == s[1]
            k == s[1] + s[2]
        IN  /\ Len(name) >= k + 10
            /\ \A i \in 1..nd : IsDigit(name[i])
            /\ name[nd + 1] = " "
            /\ \A i \in (nd + 2)..(k + 1) : IsWord(name[i])
            /\ SubSeq(name, k + 2, k + 5) = <<" ", "a", "t", " ">>
            /\ IsDigit(name[k + 6]) /\ IsDigit(name[k + 7])
            /\ name[k + 8] \in {":", "-"}
            /\ IsDigit(name[k + 9]) /\ IsDigit(name[k + 10])
            /\ Len(name) = k + 10 \/ name[k + 11] = "."}

Contains(name, part) ==
    \E i \in 1..(Len(name) - Len(part) + 1) :
        SubSeq(name, i, i + Len(part) - 1) = part

\* C26 as stated: parse_filename succeeds on exactly the names of the form
\* '<1-2 digit day> <month> at <HH><: or -><MM>', optionally followed by '.'
\* and any extension, with a month of Jan..Dec (with Sept); a name without
\* ' at ' or without ':' and '-' fails with the invalid-format error; on
\* success day, hours and minutes are the numbers in the name and month is
\* the 1-based position of the abbreviation.
C26_AcceptsExactlyTheForm ==
    parsed # NoParse =>
        LET splits == FormSplits(filename)
            s == CHOOSE s \in splits : TRUE
            nd == s[1]
            k == s[1] + s[2]
            month == SubSeq(filename, nd + 2, k + 1)
        IN  /\ parsed.status = "returned"
                <=> (splits # {} /\ month \in Range(MonthNames))
            /\ (~Contains(filename, <<" ", "a", "t", " ">>)
                  \/ (~Contains(filename, <<":">>) /\ ~Contains(filename, <<"-">>)))
                => /\ parsed.status = "raised"
                   /\ Head(parsed.exc.message) = "Filename '"
            /\ parsed.status = "returned" =>
                /\ splits # {}
                /\ parsed.value.day = IntOf(SubSeq(filename, 1, nd))
                /\ parsed.value.hours = IntOf(SubSeq(filename, k + 6, k + 7))
                /\ parsed.value.minutes = IntOf(SubSeq(filename, k + 9, k + 10))
                /\ MonthNames[parsed.value.month] = month

\* C27 as stated: no recording is lost by a successful run: every original
\* the daemon has removed after a successful run has its copy, with its
\* content, in the rename output directory (no copy of another original has
\* taken its place).
C27_NoRecordingLost ==
    \A p \in finished :
        p \notin DOMAIN rn_files =>
            \E q \in DOMAIN rn_files :
                /\ q.dir = OutputDirectory("rename")
                /\ rn_files[q].content = p.name

\* C28 as stated: Daemon.run leaves its loop only in response to a
\* termination signal: whatever happens to a dequeued file, the failure of
\* path.unlink() included, run goes on until a signal has been received.
C28_LoopLeftOnlyBySignal ==
    ~Alive => received > 0

\* C29 as stated: every shutdown stops the monitor: once run has returned or
\* the process has exited on a termination signal that arrived after the
\* monitor was started, monitor.stop has completed.
C29_ShutdownStopsMonitor ==
    (pc \in {"stopped", "exited"} /\ received > 0 /\ observer # "new")
        => observer = "stopped"

\* C30: a modification event never changes the pending queue: every step
\* that appends to it is the start-up scan or the creation event of the
\* appended path, and no live event enqueues a file that already existed.
C30_ModifiedNeverEnqueues ==
    [][/\ pending' # pending =>
             \/ pending # <<>> /\ pending' = Tail(pending)
             \/ pc = "start"
             \/ \E n \in Names :
                    /\ ~Present(n)
                    /\ pending' = Append(pending, InputPath(n))
       /\ \A n \in Names :
              (Present(n) /\ pc # "start") =>
                  Count(discovered', InputPath(n)) = Count(discovered, InputPath(n))
      ]_vars

\* C30 witness: a file created empty while the monitor was running has been
\* written to since, and was never enqueued.
C30_Witness ==
    \E n \in Names :
        /\ n > Len(listing)
        /\ Present(n)
        /\ ~fs[n].is_dir
        /\ fs[n].suffix \in Extensions
        /\ fs[n].size > 0
        /\ InputPath(n) \notin Range(discovered)

====
